---- MODULE Spec2Model ----
(***************************************************************************)
(* Model of the game engine of src/src/App.jsx ("Bai Tan", 8 cards each):  *)
(* newGame, playAttack, playDefend, addAttack, defenderTakes, drawToFill   *)
(* and checkForFinish, acting on the React state `game`.                   *)
(*                                                                         *)
(* A card is its index in makeDeck(): card c has suit c \div 9 (index in   *)
(* SUITS) and rank c % 9 (index in RANKS, which is rankValue).  Arrays are *)
(* sequences; Array.pop takes the LAST element, Array.unshift puts one in  *)
(* FRONT, Array.push appends.                                              *)
(*                                                                         *)
(* The variables players .. maxAdds are the fields of `game`.  Three more  *)
(* record what the code does not keep: discard (the cards dropped when a   *)
(* resolved table is cleared), last (the last handler call: its name, its  *)
(* outcome, the phase it was made in, the cards it took or pairs it        *)
(* cleared, the cards each player drew) and cnt (the calls that changed    *)
(* the game, per handler).  The handlers are called with any player and    *)
(* phase, as the functions allow; the guards of the CardButton click       *)
(* handler are not part of them.  importState and a second newGame are     *)
(* not modelled.                                                           *)
(***************************************************************************)
EXTENDS Integers, Sequences, FiniteSets, TLC

\* ------------------------------------------------------------------ bounds
\* number of shuffles Init draws the deck from
NumShuffles == 2
\* Spec: calls that change the game, explored per game
MaxSteps == 9
\* SpecEndgame: calls that change the game, explored per game: in all, and of
\* playDefend, addAttack and defenderTakes (playAttack is bounded by EndSteps alone)
EndSteps == 16
EndDefends == 1
EndAdds == 1
EndTakes == 3
LiveAdds == 1
LiveAddSteps == 10

\* ------------------------------------------------------- program constants
NumSuits == 4
NumRanks == 9
HandSize == 8
MaxTable == 8
NoCard == -1

Cards == 0 .. (NumSuits * NumRanks - 1)
Suit(c) == c \div NumRanks
rankValue(c) == c % NumRanks

Min(a, b) == IF a < b THEN a ELSE b

\* makeDeck(): suits outer, ranks inner
makeDeck == [i \in 1 .. NumSuits * NumRanks |-> i - 1]

\* shuffle() draws a permutation at random; the model starts from the
\* permutations i -> (Multiplier * i + Offset) mod 36, Multiplier coprime to 36
Multiplier(k) == CASE k = 0 -> 11 [] k = 1 -> 7 [] k = 2 -> 5 [] k = 3 -> 13 [] OTHER -> 1
Offset(k) == CASE k = 0 -> 3 [] k = 1 -> 10 [] k = 2 -> 31 [] k = 3 -> 8 [] OTHER -> 0
\* the permutation i -> (a * i + b) mod Len(arr) of arr
Affine(arr, a, b) ==
    [i \in 1 .. Len(arr) |-> arr[((a * (i - 1) + b) % Len(arr)) + 1]]
shuffle(arr, k) == Affine(arr, Multiplier(k), Offset(k))

SeqToSet(s) == {s[i] : i \in 1 .. Len(s)}
RemoveAt(s, i) == SubSeq(s, 1, i - 1) \o SubSeq(s, i + 1, Len(s))
\* hand.findIndex((c) => c.id === card.id): first position, 0 for -1
findIndex(hand, card) ==
    IF \E i \in 1 .. Len(hand) : hand[i] = card
    THEN CHOOSE i \in 1 .. Len(hand) : hand[i] = card /\ \A j \in 1 .. i - 1 : hand[j] # card
    ELSE 0

VARIABLES players, deck, trump, table, attacker, defender, phase, maxAdds,
          discard, last, cnt

game == <<players, deck, trump, table, attacker, defender, phase, maxAdds>>
vars == <<players, deck, trump, table, attacker, defender, phase, maxAdds,
          discard, last, cnt>>

numPlayers == Len(players)
\* players are numbered 0..n-1 in the code; players[p+1] is the hand of player p
Hand(p) == players[p + 1]
PlayerIds == 0 .. numPlayers - 1

\* ------------------------------------------------------------ pure helpers
\* for (i < 8) for (p < numPlayers) players[p].hand.push(deck.pop()), as one
\* pop per step: pop number t (from 0) goes to player t % n
RECURSIVE Deal(_, _, _, _)
Deal(pl, dk, n, t) ==
    IF t = HandSize * n THEN [players |-> pl, deck |-> dk]
    ELSE Deal([pl EXCEPT ![(t % n) + 1] = Append(@, dk[Len(dk)])],
              SubSeq(dk, 1, Len(dk) - 1), n, t + 1)

\* the lowest trump of a hand (trumps[0] after the sort), NoCard if none
LowestTrump(hand, tr) ==
    LET trumps == {c \in SeqToSet(hand) : Suit(c) = tr}
    IN IF trumps = {} THEN NoCard
       ELSE CHOOSE c \in trumps : \A d \in trumps : rankValue(c) <= rankValue(d)

\* faulty variant of ScanPlayers: the comparison written >, keeping the
\* holder of the highest trump
RECURSIVE ScanPlayers_highest(_, _, _, _)
ScanPlayers_highest(pl, tr, pi, best) ==
    IF pi = Len(pl) THEN best
    ELSE LET cand == LowestTrump(pl[pi + 1], tr)
         IN IF cand # NoCard /\ (best = <<>> \/ rankValue(cand) > rankValue(best[2]))
            THEN ScanPlayers_highest(pl, tr, pi + 1, <<pi, cand>>)
            ELSE ScanPlayers_highest(pl, tr, pi + 1, best)

\* players.forEach((p, pi) => ...): best is replaced only by a strictly lower
\* trump; best = <<playerIndex, card>>, <<>> for null
RECURSIVE ScanPlayers(_, _, _, _)
ScanPlayers(pl, tr, pi, best) ==
    IF pi = Len(pl) THEN best
    ELSE LET cand == LowestTrump(pl[pi + 1], tr)
         IN IF cand # NoCard /\ (best = <<>> \/ rankValue(cand) < rankValue(best[2]))
            THEN ScanPlayers(pl, tr, pi + 1, <<pi, cand>>)
            ELSE ScanPlayers(pl, tr, pi + 1, best)

findFirstAttacker(pl, tr) ==
    LET best == ScanPlayers(pl, tr, 0, <<>>)
    IN IF best # <<>> THEN best[1] ELSE 0

\* faulty variant of FillHand: the loop test written <= 8, drawing a ninth card
RECURSIVE FillHand_offByOne(_, _)
FillHand_offByOne(hand, dk) ==
    IF Len(hand) <= HandSize /\ Len(dk) > 0
    THEN FillHand_offByOne(Append(hand, dk[Len(dk)]), SubSeq(dk, 1, Len(dk) - 1))
    ELSE [hand |-> hand, deck |-> dk]

\* while (p.hand.length < 8 && s.deck.length > 0) p.hand.push(s.deck.pop())
RECURSIVE FillHand(_, _)
FillHand(hand, dk) ==
    IF Len(hand) < HandSize /\ Len(dk) > 0
    THEN FillHand(Append(hand, dk[Len(dk)]), SubSeq(dk, 1, Len(dk) - 1))
    ELSE [hand |-> hand, deck |-> dk]

\* faulty variant of FillFrom: the loop starts at player 0 instead of the attacker
RECURSIVE FillFrom_fromZero(_, _, _, _)
FillFrom_fromZero(pl, dk, att, offset) ==
    IF offset = Len(pl) THEN [players |-> pl, deck |-> dk]
    ELSE LET pIndex == offset
             f == FillHand(pl[pIndex + 1], dk)
         IN FillFrom_fromZero([pl EXCEPT ![pIndex + 1] = f.hand], f.deck, att, offset + 1)

\* for (offset < players.length) pIndex = (attacker + offset) % players.length
RECURSIVE FillFrom(_, _, _, _)
FillFrom(pl, dk, att, offset) ==
    IF offset = Len(pl) THEN [players |-> pl, deck |-> dk]
    ELSE LET pIndex == (att + offset) % Len(pl)
             f == FillHand(pl[pIndex + 1], dk)
         IN FillFrom([pl EXCEPT ![pIndex + 1] = f.hand], f.deck, att, offset + 1)

drawToFill(pl, dk, att) == FillFrom(pl, dk, att, 0)

\* faulty variant of canBeat: the trump test is made before the same-suit
\* test, so any trump beats a higher trump
canBeat_trumpFirst(attackCard, defendCard, tr) ==
    IF defendCard = NoCard THEN FALSE
    ELSE IF Suit(defendCard) = tr THEN TRUE
         ELSE Suit(attackCard) = Suit(defendCard)
                 /\ rankValue(defendCard) > rankValue(attackCard)

canBeat(attackCard, defendCard, tr) ==
    IF defendCard = NoCard THEN FALSE
    ELSE IF Suit(attackCard) = Suit(defendCard)
         THEN rankValue(defendCard) > rankValue(attackCard)
         ELSE Suit(defendCard) = tr

\* faulty variant of checkForFinish: the filter tests the deck alone
checkForFinish_deckOnly(pl, dk) == Len(dk) = 0

\* players.filter(p => p.hand.length === 0 && s.deck.length === 0).length > 0
checkForFinish(pl, dk) ==
    \E i \in 1 .. Len(pl) : Len(pl[i]) = 0 /\ Len(dk) = 0

\* faulty variant of PhaseAfterRefill: checkForFinish(after) is never called
PhaseAfterRefill_neverFinished(pl, dk) == "attack"

\* phase the handler leaves: after.phase = "attack", then checkForFinish(after)
PhaseAfterRefill(pl, dk) == IF checkForFinish(pl, dk) THEN "finished" ELSE "attack"

\* table.flatMap(t => [t.attack.rank, t.defend ? t.defend.rank : null]).filter(Boolean)
ranksOnTable(tb) ==
    {rankValue(tb[i].attack) : i \in 1 .. Len(tb)}
        \cup {rankValue(tb[i].defend) : i \in {j \in 1 .. Len(tb) : tb[j].defend # NoCard}}

\* table.flatMap(t => t.defend ? [t.attack, t.defend] : [t.attack])
RECURSIVE TableCards(_)
TableCards(tb) ==
    IF tb = <<>> THEN <<>>
    ELSE (IF tb[1].defend # NoCard THEN <<tb[1].attack, tb[1].defend>> ELSE <<tb[1].attack>>)
         \o TableCards(Tail(tb))

\* ------------------------------------------------------------------- Init
\* faulty variant of newGameFrom: the trump card is pushed back onto the end
\* of the deck it was popped from
newGameFrom_trumpOnTop(n, deck0) ==
    LET dealt == Deal([p \in 1 .. n |-> <<>>], deck0, n, 0)
        trumpCard == dealt.deck[Len(dealt.deck)]
        first == findFirstAttacker(dealt.players, Suit(trumpCard))
    IN [players |-> dealt.players, deck |-> dealt.deck, trump |-> Suit(trumpCard),
        table |-> <<>>, attacker |-> first, defender |-> (first + 1) % n,
        phase |-> "attack", maxAdds |-> 0]

\* newGame() from line 71 on, with numPlayers = n and the shuffled deck deck0
newGameFrom(n, deck0) ==
    LET dealt == Deal([p \in 1 .. n |-> <<>>], deck0, n, 0)
        trumpCard == dealt.deck[Len(dealt.deck)]
        dk == <<trumpCard>> \o SubSeq(dealt.deck, 1, Len(dealt.deck) - 1)
        first == findFirstAttacker(dealt.players, Suit(trumpCard))
    IN [players |-> dealt.players, deck |-> dk, trump |-> Suit(trumpCard),
        table |-> <<>>, attacker |-> first, defender |-> (first + 1) % n,
        phase |-> "attack", maxAdds |-> 0]

\* newGame() with numPlayers = n and the k-th shuffle
newGame(n, k) == newGameFrom(n, shuffle(makeDeck, k))

Init ==
    \E n \in {2, 3, 4}, k \in 0 .. NumShuffles - 1 :
        LET g == newGame(n, k)
        IN /\ players = g.players
           /\ deck = g.deck
           /\ trump = g.trump
           /\ table = g.table
           /\ attacker = g.attacker
           /\ defender = g.defender
           /\ phase = g.phase
           /\ maxAdds = g.maxAdds
           /\ discard = <<>>
           /\ last = [op |-> "newGame", sig |-> "ok", from |-> "none", n |-> 0, drew |-> <<>>]
           /\ cnt = [attack |-> 0, defend |-> 0, add |-> 0, take |-> 0]

\* --------------------------------------------------------------- handlers
\* a handler that returns before setGame: the game is left as it was
Reject(op, sig) ==
    /\ last' = [op |-> op, sig |-> sig, from |-> phase, n |-> 0, drew |-> <<>>]
    /\ UNCHANGED <<players, deck, trump, table, attacker, defender, phase, maxAdds,
                   discard, cnt>>

Drew(before, after) == [i \in 1 .. Len(before) |-> Len(after[i]) - Len(before[i])]

\* a handler that reaches setGame. n: the cards taken (defenderTakes) or the
\* pairs cleared by the resolution (playDefend); drew: the cards each player
\* drew in the handler's drawToFill, <<>> if it ran none
Accept(op, n, drew) ==
    /\ last' = [op |-> op, sig |-> "ok", from |-> phase, n |-> n, drew |-> drew]
    /\ cnt' = IF game' # game THEN [cnt EXCEPT ![op] = @ + 1] ELSE cnt

\* faulty variant of playAttack: the card is pushed onto the table without the splice
\* that removes it from the hand
playAttack_keepsCard(playerIndex, card) ==
    IF attacker # playerIndex THEN Reject("attack", "WrongActor")
    ELSE IF findIndex(Hand(playerIndex), card) = 0 THEN Reject("attack", "CardNotOwned")
    ELSE /\ table' = Append(table, [attack |-> card, defend |-> NoCard, by |-> playerIndex])
         /\ phase' = "defend"
         /\ maxAdds' = Min(Len(Hand(defender)), MaxTable - Len(table'))
         /\ UNCHANGED <<players, deck, trump, attacker, defender, discard>>
         /\ Accept("attack", 0, <<>>)

playAttack(playerIndex, card) ==
    IF attacker # playerIndex THEN Reject("attack", "WrongActor")
    ELSE LET hand == Hand(playerIndex)
             idx == findIndex(hand, card)
         IN IF idx = 0 THEN Reject("attack", "CardNotOwned")
            ELSE /\ players' = [players EXCEPT ![playerIndex + 1] = RemoveAt(hand, idx)]
                 /\ table' = Append(table, [attack |-> card, defend |-> NoCard, by |-> playerIndex])
                 /\ phase' = "defend"
                 /\ maxAdds' = Min(Len(players'[defender + 1]), MaxTable - Len(table'))
                 /\ UNCHANGED <<deck, trump, attacker, defender, discard>>
                 /\ Accept("attack", 0, <<>>)

\* faulty variant of playDefend: the card is spliced out of the hand before the
\* canBeat check, so a defend that cannot beat still spends the card
playDefend_spendsCard(playerIndex, attackIndex, card) ==
    IF defender # playerIndex THEN Reject("defend", "WrongActor")
    ELSE IF attackIndex >= Len(table) THEN Reject("defend", "NoSuchPair")
    ELSE IF table[attackIndex + 1].defend # NoCard THEN Reject("defend", "AlreadyDefended")
    ELSE LET hand == Hand(playerIndex)
             idx == findIndex(hand, card)
             attPair == table[attackIndex + 1]
         IN IF idx = 0 THEN Reject("defend", "CardNotOwned")
            ELSE LET pl1 == [players EXCEPT ![playerIndex + 1] = RemoveAt(hand, idx)]
                     tb1 == [table EXCEPT ![attackIndex + 1].defend = card]
                     allDefended == \A i \in 1 .. Len(tb1) : tb1[i].defend # NoCard
                 IN IF ~canBeat(attPair.attack, card, trump)
                    THEN /\ players' = pl1
                         /\ last' = [op |-> "defend", sig |-> "IllegalDefend", from |-> phase,
                                     n |-> 0, drew |-> <<>>]
                         /\ UNCHANGED <<deck, trump, table, attacker, defender, phase, maxAdds,
                                        discard, cnt>>
                    ELSE IF allDefended
                    THEN LET att1 == defender
                             after == drawToFill(pl1, deck, att1)
                         IN /\ table' = <<>>
                            /\ discard' = discard \o TableCards(tb1)
                            /\ attacker' = att1
                            /\ defender' = (att1 + 1) % Len(players)
                            /\ players' = after.players
                            /\ deck' = after.deck
                            /\ phase' = PhaseAfterRefill(after.players, after.deck)
                            /\ UNCHANGED <<trump, maxAdds>>
                            /\ Accept("defend", Len(tb1), Drew(pl1, after.players))
                    ELSE /\ players' = pl1
                         /\ table' = tb1
                         /\ UNCHANGED <<deck, trump, attacker, defender, phase, maxAdds, discard>>
                         /\ Accept("defend", 0, <<>>)

\* faulty variant of playDefend: the allDefended branch is left out, so a fully
\* defended table stays on the table
playDefend_staysOpen(playerIndex, attackIndex, card) ==
    IF defender # playerIndex THEN Reject("defend", "WrongActor")
    ELSE IF attackIndex >= Len(table) THEN Reject("defend", "NoSuchPair")
    ELSE IF table[attackIndex + 1].defend # NoCard THEN Reject("defend", "AlreadyDefended")
    ELSE LET hand == Hand(playerIndex)
             idx == findIndex(hand, card)
             attPair == table[attackIndex + 1]
         IN IF idx = 0 THEN Reject("defend", "CardNotOwned")
            ELSE IF ~canBeat(attPair.attack, card, trump) THEN Reject("defend", "IllegalDefend")
            ELSE LET pl1 == [players EXCEPT ![playerIndex + 1] = RemoveAt(hand, idx)]
                     tb1 == [table EXCEPT ![attackIndex + 1].defend = card]
                 IN /\ players' = pl1
                    /\ table' = tb1
                    /\ UNCHANGED <<deck, trump, attacker, defender, phase, maxAdds, discard>>
                    /\ Accept("defend", 0, <<>>)

\* faulty variant of playDefend: the resolution leaves out s.attacker = s.defender
playDefend_noRotate(playerIndex, attackIndex, card) ==
    IF defender # playerIndex THEN Reject("defend", "WrongActor")
    ELSE IF attackIndex >= Len(table) THEN Reject("defend", "NoSuchPair")
    ELSE IF table[attackIndex + 1].defend # NoCard THEN Reject("defend", "AlreadyDefended")
    ELSE LET hand == Hand(playerIndex)
             idx == findIndex(hand, card)
             attPair == table[attackIndex + 1]
         IN IF idx = 0 THEN Reject("defend", "CardNotOwned")
            ELSE IF ~canBeat(attPair.attack, card, trump) THEN Reject("defend", "IllegalDefend")
            ELSE LET pl1 == [players EXCEPT ![playerIndex + 1] = RemoveAt(hand, idx)]
                     tb1 == [table EXCEPT ![attackIndex + 1].defend = card]
                     allDefended == \A i \in 1 .. Len(tb1) : tb1[i].defend # NoCard
                 IN IF allDefended
                    THEN LET att1 == attacker
                             after == drawToFill(pl1, deck, att1)
                         IN /\ table' = <<>>
                            /\ discard' = discard \o TableCards(tb1)
                            /\ attacker' = att1
                            /\ defender' = (att1 + 1) % Len(players)
                            /\ players' = after.players
                            /\ deck' = after.deck
                            /\ phase' = PhaseAfterRefill(after.players, after.deck)
                            /\ UNCHANGED <<trump, maxAdds>>
                            /\ Accept("defend", Len(tb1), Drew(pl1, after.players))
                    ELSE /\ players' = pl1
                         /\ table' = tb1
                         /\ UNCHANGED <<deck, trump, attacker, defender, phase, maxAdds, discard>>
                         /\ Accept("defend", 0, <<>>)

\* faulty variant of playDefend: the resolution leaves out after.phase = "attack"
\* and checkForFinish(after), so the phase stays at "cleanup"
playDefend_leftInCleanup(playerIndex, attackIndex, card) ==
    IF defender # playerIndex THEN Reject("defend", "WrongActor")
    ELSE IF attackIndex >= Len(table) THEN Reject("defend", "NoSuchPair")
    ELSE IF table[attackIndex + 1].defend # NoCard THEN Reject("defend", "AlreadyDefended")
    ELSE LET hand == Hand(playerIndex)
             idx == findIndex(hand, card)
             attPair == table[attackIndex + 1]
         IN IF idx = 0 THEN Reject("defend", "CardNotOwned")
            ELSE IF ~canBeat(attPair.attack, card, trump) THEN Reject("defend", "IllegalDefend")
            ELSE LET pl1 == [players EXCEPT ![playerIndex + 1] = RemoveAt(hand, idx)]
                     tb1 == [table EXCEPT ![attackIndex + 1].defend = card]
                     allDefended == \A i \in 1 .. Len(tb1) : tb1[i].defend # NoCard
                 IN IF allDefended
                    THEN LET att1 == defender
                             after == drawToFill(pl1, deck, att1)
                         IN /\ table' = <<>>
                            /\ discard' = discard \o TableCards(tb1)
                            /\ attacker' = att1
                            /\ defender' = (att1 + 1) % Len(players)
                            /\ players' = after.players
                            /\ deck' = after.deck
                            /\ phase' = "cleanup"
                            /\ UNCHANGED <<trump, maxAdds>>
                            /\ Accept("defend", Len(tb1), Drew(pl1, after.players))
                    ELSE /\ players' = pl1
                         /\ table' = tb1
                         /\ UNCHANGED <<deck, trump, attacker, defender, phase, maxAdds, discard>>
                         /\ Accept("defend", 0, <<>>)

playDefend(playerIndex, attackIndex, card) ==
    IF defender # playerIndex THEN Reject("defend", "WrongActor")
    ELSE IF attackIndex >= Len(table) THEN Reject("defend", "NoSuchPair")
    ELSE IF table[attackIndex + 1].defend # NoCard THEN Reject("defend", "AlreadyDefended")
    ELSE LET hand == Hand(playerIndex)
             idx == findIndex(hand, card)
             attPair == table[attackIndex + 1]
         IN IF idx = 0 THEN Reject("defend", "CardNotOwned")
            ELSE IF ~canBeat(attPair.attack, card, trump) THEN Reject("defend", "IllegalDefend")
            ELSE LET pl1 == [players EXCEPT ![playerIndex + 1] = RemoveAt(hand, idx)]
                     tb1 == [table EXCEPT ![attackIndex + 1].defend = card]
                     allDefended == \A i \in 1 .. Len(tb1) : tb1[i].defend # NoCard
                 IN IF allDefended
                    THEN LET att1 == defender
                             after == drawToFill(pl1, deck, att1)
                         IN /\ table' = <<>>
                            /\ discard' = discard \o TableCards(tb1)
                            /\ attacker' = att1
                            /\ defender' = (att1 + 1) % Len(players)
                            /\ players' = after.players
                            /\ deck' = after.deck
                            /\ phase' = PhaseAfterRefill(after.players, after.deck)
                            /\ UNCHANGED <<trump, maxAdds>>
                            /\ Accept("defend", Len(tb1), Drew(pl1, after.players))
                    ELSE /\ players' = pl1
                         /\ table' = tb1
                         /\ UNCHANGED <<deck, trump, attacker, defender, phase, maxAdds, discard>>
                         /\ Accept("defend", 0, <<>>)

addAttack(byPlayerIndex, card) ==
    IF phase # "defend" THEN Reject("add", "WrongPhase")
    ELSE LET pHand == Hand(byPlayerIndex)
             idx == findIndex(pHand, card)
         IN IF idx = 0 THEN Reject("add", "CardNotOwned")
            ELSE IF rankValue(card) \notin ranksOnTable(table) THEN Reject("add", "IllegalAddRank")
            ELSE IF Len(table) >= MaxTable THEN Reject("add", "TableFull")
            ELSE /\ players' = [players EXCEPT ![byPlayerIndex + 1] = RemoveAt(pHand, idx)]
                 /\ table' = Append(table, [attack |-> card, defend |-> NoCard, by |-> byPlayerIndex])
                 /\ UNCHANGED <<deck, trump, attacker, defender, phase, maxAdds, discard>>
                 /\ Accept("add", 0, <<>>)

\* faulty variant of defenderTakes: toTake collects the attack cards only
defenderTakes_attackCardsOnly ==
    LET toTake == [i \in 1 .. Len(table) |-> table[i].attack]
        pl1 == [players EXCEPT ![defender + 1] = @ \o toTake]
        after == drawToFill(pl1, deck, attacker)
    IN /\ table' = <<>>
       /\ defender' = (attacker + 1) % Len(players)
       /\ players' = after.players
       /\ deck' = after.deck
       /\ phase' = PhaseAfterRefill(after.players, after.deck)
       /\ UNCHANGED <<trump, attacker, maxAdds, discard>>
       /\ Accept("take", Len(toTake), Drew(pl1, after.players))

\* faulty variant of defenderTakes: the closing checkForFinish(after) is left out
defenderTakes_noFinishCheck ==
    LET toTake == TableCards(table)
        pl1 == [players EXCEPT ![defender + 1] = @ \o toTake]
        after == drawToFill(pl1, deck, attacker)
    IN /\ table' = <<>>
       /\ defender' = (attacker + 1) % Len(players)
       /\ players' = after.players
       /\ deck' = after.deck
       /\ phase' = "attack"
       /\ UNCHANGED <<trump, attacker, maxAdds, discard>>
       /\ Accept("take", Len(toTake), Drew(pl1, after.players))

defenderTakes ==
    LET toTake == TableCards(table)
        pl1 == [players EXCEPT ![defender + 1] = @ \o toTake]
        after == drawToFill(pl1, deck, attacker)
    IN /\ table' = <<>>
       /\ defender' = (attacker + 1) % Len(players)
       /\ players' = after.players
       /\ deck' = after.deck
       /\ phase' = PhaseAfterRefill(after.players, after.deck)
       /\ UNCHANGED <<trump, attacker, maxAdds, discard>>
       /\ Accept("take", Len(toTake), Drew(pl1, after.players))

\* ---------------------------------------------------------------- inputs
\* a card that is not in the hand (the lowest such card of makeDeck)
ForeignCard(hand) == CHOOSE c \in Cards : c \notin SeqToSet(hand) /\
                        \A d \in Cards : d \notin SeqToSet(hand) => c <= d
\* the cards a call for player p is tried with: the card at the front of the
\* hand, and a card that is not in the hand
Picks(p) ==
    (IF Hand(p) = <<>> THEN {} ELSE {Hand(p)[1]}) \cup {ForeignCard(Hand(p))}

Steps == cnt.attack + cnt.defend + cnt.add + cnt.take

\* every handler, called for every player
AttackCall ==
    /\ Steps < MaxSteps
    /\ \E p \in PlayerIds : \E c \in Picks(p) : playAttack(p, c)

DefendCall ==
    /\ Steps < MaxSteps
    /\ \E p \in PlayerIds : \E i \in 0 .. Len(table), c \in Picks(p) : playDefend(p, i, c)

AddCall ==
    /\ Steps < MaxSteps
    /\ \E p \in PlayerIds : \E c \in Picks(p) : addAttack(p, c)

TakeCall ==
    /\ Steps < MaxSteps
    /\ defenderTakes

Next == AttackCall \/ DefendCall \/ AddCall \/ TakeCall

Spec == Init /\ [][Next]_vars

\* the long games: four players, the first shuffle, the handlers called for the
\* attacker and the defender
InitEndgame == Init /\ numPlayers = 4 /\ deck = newGame(4, 0).deck

Active == {attacker, defender}

EndAttackCall ==
    /\ Steps < EndSteps
    /\ \E p \in Active : \E c \in Picks(p) : playAttack(p, c)

EndDefendCall ==
    /\ Steps < EndSteps /\ cnt.defend < EndDefends
    /\ \E p \in Active : \E i \in 0 .. Len(table), c \in Picks(p) : playDefend(p, i, c)

EndAddCall ==
    /\ Steps < EndSteps /\ cnt.add < EndAdds
    /\ \E p \in Active : \E c \in Picks(p) : addAttack(p, c)

EndTakeCall ==
    /\ Steps < EndSteps /\ cnt.take < EndTakes
    /\ defenderTakes

NextEndgame == EndAttackCall \/ EndDefendCall \/ EndAddCall \/ EndTakeCall

SpecEndgame == InitEndgame /\ [][NextEndgame]_vars

\* the defend call on every input of canBeat: for every attack card a, defend
\* card d and trump suit t, a two-player game in phase Defend, the deck drawn
\* empty, the attack card a and a second attack card a2 on the table, and the
\* defender holding d in front of all the other cards
RECURSIVE Without(_, _)
Without(sq, set) ==
    IF sq = <<>> THEN <<>>
    ELSE (IF sq[1] \in set THEN <<>> ELSE <<sq[1]>>) \o Without(Tail(sq), set)

InitBeat ==
    \E a \in Cards, d \in Cards, t \in 0 .. NumSuits - 1 :
        /\ a # d
        /\ LET a2 == CHOOSE c \in Cards : c \notin {a, d} /\
                        \A e \in Cards : e \notin {a, d} => c <= e
           IN /\ players = << <<>>, <<d>> \o Without(makeDeck, {a, d, a2}) >>
              /\ table = << [attack |-> a, defend |-> NoCard, by |-> 0],
                            [attack |-> a2, defend |-> NoCard, by |-> 0] >>
        /\ deck = <<>>
        /\ trump = t
        /\ attacker = 0
        /\ defender = 1
        /\ phase = "defend"
        /\ maxAdds = MaxTable - 1
        /\ discard = <<>>
        /\ last = [op |-> "attack", sig |-> "ok", from |-> "defend", n |-> 0, drew |-> <<>>]
        /\ cnt = [attack |-> 2, defend |-> 0, add |-> 0, take |-> 0]

\* the defender answers the first attack card
BeatDefendCall ==
    /\ last.op = "attack"
    /\ \E c \in Picks(defender) : playDefend(defender, 0, c)

NextBeat == BeatDefendCall

SpecBeat == InitBeat /\ [][NextBeat]_vars

\* the deals: newGame on every permutation i -> (a * i + b) mod 36, followed by
\* the first call of each handler
Multipliers == {a \in Cards : \A q \in {2, 3} : a % q # 0}

InitDeal ==
    \E n \in {2, 3, 4}, a \in Multipliers, b \in Cards :
        LET g == newGameFrom(n, Affine(makeDeck, a, b))
        IN /\ players = g.players
           /\ deck = g.deck
           /\ trump = g.trump
           /\ table = g.table
           /\ attacker = g.attacker
           /\ defender = g.defender
           /\ phase = g.phase
           /\ maxAdds = g.maxAdds
           /\ discard = <<>>
           /\ last = [op |-> "newGame", sig |-> "ok", from |-> "none", n |-> 0, drew |-> <<>>]
           /\ cnt = [attack |-> 0, defend |-> 0, add |-> 0, take |-> 0]

DealAttackCall ==
    /\ last.op = "newGame"
    /\ \E p \in PlayerIds : \E c \in Picks(p) : playAttack(p, c)

DealTakeCall ==
    /\ last.op = "newGame"
    /\ defenderTakes

NextDeal == DealAttackCall \/ DealTakeCall

SpecDeal == InitDeal /\ [][NextDeal]_vars

\* whole games played through the card buttons (CardButton, lines 388-421): in
\* phase attack the attacker attacks, in phase defend the defender defends the
\* first undefended pair with the card at the front of the hand or takes, and
\* the attacker adds the first card whose rank is on the table; 4 players, one
\* deal. The players keep playing: an attack in phase attack and a take in
\* phase defend are not postponed forever.
\* Add-attacks are tried in the first LiveAddSteps calls, LiveAdds of them.
InitLive == Init /\ numPlayers = 4 /\ deck = newGame(4, 1).deck

Front(p) == IF Hand(p) = <<>> THEN {} ELSE {Hand(p)[1]}

LiveAttackCall ==
    /\ phase = "attack"
    /\ \E c \in Front(attacker) : playAttack(attacker, c)

LiveDefendCall ==
    /\ phase = "defend"
    /\ \E i \in 1 .. Len(table) : \E c \in Front(defender) :
          /\ table[i].defend = NoCard
          /\ \A j \in 1 .. i - 1 : table[j].defend # NoCard
          /\ playDefend(defender, i - 1, c)
          /\ game' # game

\* the first card of the hand whose rank is on the table
Addable(p) ==
    LET fits == {i \in 1 .. Len(Hand(p)) : rankValue(Hand(p)[i]) \in ranksOnTable(table)}
    IN {Hand(p)[i] : i \in {j \in fits : \A k \in fits : j <= k}}

LiveAddCall ==
    /\ phase = "defend"
    /\ cnt.add < LiveAdds /\ Steps < LiveAddSteps
    /\ \E c \in Addable(attacker) : addAttack(attacker, c) /\ game' # game

LiveTakeCall ==
    /\ phase = "defend"
    /\ defenderTakes

NextLive == LiveAttackCall \/ LiveDefendCall \/ LiveAddCall \/ LiveTakeCall

SpecLive ==
    InitLive /\ [][NextLive]_vars /\ WF_vars(LiveAttackCall) /\ WF_vars(LiveTakeCall)

\* ------------------------------------------------------------------ claims
Beats(d, a) ==
    \/ Suit(d) = Suit(a) /\ rankValue(d) > rankValue(a)
    \/ Suit(d) = trump /\ Suit(a) # trump

RECURSIVE Flatten(_)
Flatten(ss) == IF ss = <<>> THEN <<>> ELSE ss[1] \o Flatten(Tail(ss))

\* every card that is anywhere: deck, hands, table, discard pile
AllCards == deck \o Flatten(players) \o TableCards(table) \o discard

Undefended == {i \in 1 .. Len(table) : table[i].defend = NoCard}

\* the last call ran drawToFill: a take, or a defend that resolved the round
Refilled == last.sig = "ok" /\ (last.op = "take" \/ (last.op = "defend" /\ last.n > 0))

\* C1: deck, hands, table and discard pile together hold each of the 36 cards
\* of the full deck exactly once, in every reachable state.
C1_Conservation ==
    /\ Len(AllCards) = NumSuits * NumRanks
    /\ SeqToSet(AllCards) = Cards

\* cards in the deck, in hands, on the table (a defended pair among them) and
\* in the discard pile, after a take
C1_Witness ==
    /\ deck # <<>> /\ discard # <<>>
    /\ \E i \in 1 .. Len(table) : table[i].defend # NoCard
    /\ cnt.take > 0

\* C2: an attack changes the state only in phase Attack: an attack submitted
\* by the attacker while the phase is Defend or Finished leaves hands, table
\* and phase unchanged.
C2_AttackOnlyInAttackPhase ==
    [][\A p \in PlayerIds : \A c \in Picks(p) :
          (playAttack(p, c) /\ phase # "attack") =>
              (players' = players /\ table' = table /\ phase' = phase)]_vars

\* C3: once the phase is Finished it stays Finished, and hands, deck and table
\* never change again.
C3_FinishedIsTerminal ==
    [][phase = "finished" =>
          (phase' = "finished" /\ players' = players /\ deck' = deck /\ table' = table)]_vars

\* C4: after every refill (round resolution or take) the phase is Finished if
\* the deck is empty and some hand is empty, and Attack otherwise; the phase is
\* never Finished while the deck holds a card.
C4_TerminationExact ==
    /\ Refilled =>
          phase = (IF deck = <<>> /\ (\E p \in PlayerIds : Hand(p) = <<>>)
                   THEN "finished" ELSE "attack")
    /\ phase = "finished" => deck = <<>>

\* a refill has left the game Finished
C4_Witness == Refilled /\ phase = "finished" /\ \E p \in PlayerIds : Hand(p) = <<>>

\* C5: a rejected attack, defend or add-attack leaves the whole game state as
\* it was: a defend by a non-defender, on an absent or defended pair, with a
\* card not in hand or a card that does not beat the attack card; an attack by
\* a non-attacker or with a card not in hand; an add-attack outside Defend,
\* with a card not in hand, with a rank not on the table, or on 8 pairs.
\* (Stated as: no step that changes the game is such a call.)
C5_RejectedLeavesState ==
    [][game' # game =>
          \A p \in PlayerIds : \A c \in Picks(p) :
              /\ (p # attacker \/ c \notin SeqToSet(Hand(p))) => ~playAttack(p, c)
              /\ \A i \in 0 .. Len(table) :
                    (\/ p # defender
                     \/ i >= Len(table)
                     \/ table[i + 1].defend # NoCard
                     \/ c \notin SeqToSet(Hand(p))
                     \/ ~Beats(c, table[i + 1].attack)) => ~playDefend(p, i, c)
              /\ (\/ phase # "defend"
                  \/ c \notin SeqToSet(Hand(p))
                  \/ rankValue(c) \notin ranksOnTable(table)
                  \/ Len(table) = MaxTable) => ~addAttack(p, c)]_vars

\* the defender has just tried a card of their hand that does not beat an
\* undefended attack card; the card is still in the hand
C5_Witness ==
    /\ last.op = "defend" /\ last.sig = "IllegalDefend"
    /\ Hand(defender) # <<>>
    /\ \E i \in Undefended : ~Beats(Hand(defender)[1], table[i].attack)

\* C6: an add-attack submitted by a player other than the current attacker is
\* rejected and leaves the state unchanged.
C6_AddOnlyByAttacker ==
    [][\A p \in PlayerIds : \A c \in Picks(p) :
          (addAttack(p, c) /\ p # attacker) => game' = game]_vars

\* C7: the table holds at most 8 pairs in every reachable state.
C7_TableAtMost8 == Len(table) <= MaxTable

\* C8: the undefended pairs on the table never outnumber the cards in the
\* defender's hand.
C8_UndefendedWithinHand == Cardinality(Undefended) <= Len(Hand(defender))

\* C9 as stated: right after any refill no hand holds more than 8 cards.
C9_HandCap == Refilled => \A p \in PlayerIds : Len(Hand(p)) <= HandSize

\* C9 as amended: right after any refill, no player who drew a card in it
\* holds more than 8 cards; a hand above 8 (cards taken from the table) drew
\* nothing.
C9_NoDrawPast8 ==
    Refilled => \A p \in PlayerIds : last.drew[p + 1] > 0 => Len(Hand(p)) <= HandSize

\* after a take one player drew up to 8 and the taker holds more than 8
C9_Witness ==
    /\ Refilled /\ last.op = "take"
    /\ \E p \in PlayerIds : last.drew[p + 1] > 0 /\ Len(Hand(p)) = HandSize
    /\ \E p \in PlayerIds : last.drew[p + 1] = 0 /\ Len(Hand(p)) > HandSize

\* C10: a take while the phase is not Defend leaves the game state as it was.
C10_TakeOutsideDefend ==
    [][(defenderTakes /\ phase # "defend") => game' = game]_vars

\* a take was submitted in phase Finished
C10_Witness == last.op = "take" /\ last.from = "finished" /\ phase = "finished"

\* C11: a defend is accepted only if the defend card beats the targeted attack
\* card: same suit and higher rank, or trump against a non-trump; so every pair
\* on the table that has a defend card satisfies the relation, and a defend
\* refused as unable to beat does not, for every attack card, defend card and
\* trump suit.
C11_BeatRule ==
    /\ [](\A i \in 1 .. Len(table) :
            table[i].defend # NoCard => Beats(table[i].defend, table[i].attack))
    /\ [][\A i \in Undefended : \A c \in SeqToSet(Hand(defender)) \cap Picks(defender) :
            playDefend(defender, i - 1, c) =>
                ((game' # game) <=> Beats(c, table[i].attack))]_vars

\* a trump has just been accepted against a non-trump of higher rank
C11_Witness ==
    /\ last.op = "defend" /\ last.sig = "ok" /\ Len(table) = 2
    /\ table[1].defend # NoCard
    /\ Suit(table[1].defend) = trump /\ Suit(table[1].attack) # trump
    /\ rankValue(table[1].defend) < rankValue(table[1].attack)

TrumpsInHands == {c \in SeqToSet(Flatten(players)) : Suit(c) = trump}

\* C12: after newGame the attacker is the player whose hand holds the lowest
\* trump among all hands (the deck does not count), or player 0 when no hand
\* holds a trump; the defender is (attacker + 1) mod numPlayers, the table is
\* empty and the phase is Attack.
C12_FirstAttacker ==
    Steps = 0 =>
        /\ IF TrumpsInHands = {} THEN attacker = 0
           ELSE \E c \in SeqToSet(Hand(attacker)) :
                   /\ c \in TrumpsInHands
                   /\ \A d \in TrumpsInHands : rankValue(c) <= rankValue(d)
        /\ defender = (attacker + 1) % numPlayers
        /\ table = <<>>
        /\ phase = "attack"

\* a deal in which no hand holds a trump and the trump card went back to the deck
C12_Witness ==
    /\ last.op = "newGame" /\ TrumpsInHands = {} /\ attacker = 0
    /\ \E i \in 1 .. Len(deck) : Suit(deck[i]) = trump

OneOfEach(tb) ==
    /\ Len(tb) = 2
    /\ \E i, j \in 1 .. 2 : tb[i].defend # NoCard /\ tb[j].defend = NoCard

\* C13 as stated: an accepted defend of the single pair on the table leaves the
\* round open (phase Defend, the defended pair still on the table), so that an
\* add-attack can follow.
C13_RoundStaysOpen ==
    [][(last'.op = "defend" /\ last'.sig = "ok" /\ Len(table) = 1)
        => (phase' = "defend" /\ Len(table') = 1 /\ table'[1].defend # NoCard)]_vars

\* C13 amended: an accepted defend of the single pair on the table resolves the
\* round at once (table cleared, both cards discarded, phase Attack or
\* Finished); an add-attack outside phase Defend is rejected as WrongPhase; and
\* a take on a table of one defended and one undefended pair moves the three
\* cards into the defender's hand and clears the table.
C13_SingleDefendResolves ==
    /\ [][(last'.op = "defend" /\ last'.sig = "ok" /\ Len(table) = 1)
           => /\ table' = <<>>
              /\ phase' \in {"attack", "finished"}
              /\ Len(discard') = Len(discard) + 2]_vars
    /\ []((last.op = "add" /\ last.from # "defend") => last.sig = "WrongPhase")
    /\ [][(last'.op = "take" /\ phase = "defend" /\ OneOfEach(table))
           => /\ table' = <<>>
              /\ last'.n = 3
              /\ SeqToSet(TableCards(table)) \subseteq SeqToSet(players'[defender + 1])
              /\ Len(players'[defender + 1]) >= Len(players[defender + 1]) + 3]_vars

\* attack, defend, add-attack: the add-attack is rejected in phase Attack
C13_Witness ==
    /\ last.op = "add" /\ last.sig = "WrongPhase" /\ last.from = "attack"
    /\ cnt = [attack |-> 1, defend |-> 1, add |-> 0, take |-> 0]
    /\ Len(discard) = 2 /\ table = <<>>

\* C14: whenever a pair is appended to a table that already holds a pair, the
\* rank of the new attack card is the rank of an attack or defend card that was
\* on the table just before.
C14_RankAlreadyPresent ==
    [][(Len(table) >= 1 /\ Len(table') = Len(table) + 1)
        => rankValue(table'[Len(table')].attack) \in ranksOnTable(table)]_vars

\* the player visited at position k of a refill that starts at att
Visited(att, k) == (att + k) % numPlayers

\* the cards drawn by the players visited before position k
RECURSIVE DrawnBefore(_, _, _)
DrawnBefore(drew, att, k) ==
    IF k = 0 THEN 0 ELSE DrawnBefore(drew, att, k - 1) + drew[Visited(att, k - 1) + 1]

\* C15: the refill visits attacker, attacker+1, ... once each and each player
\* draws from the draw end of the deck until 8 cards or the deck is empty: a
\* player drew only if every earlier player ended with at least 8 cards, a
\* player who had 8 or more drew nothing, a non-empty deck afterwards means
\* every hand has at least 8 cards, and the cards drawn are the last cards of
\* the deck, handed out in that order.
C15_RefillOrder ==
    /\ [](Refilled =>
            /\ \A k \in 0 .. numPlayers - 1 :
                  last.drew[Visited(attacker, k) + 1] > 0 =>
                      \A j \in 0 .. k - 1 : Len(Hand(Visited(attacker, j))) >= HandSize
            /\ \A p \in PlayerIds :
                  Len(Hand(p)) - last.drew[p + 1] >= HandSize => last.drew[p + 1] = 0
            /\ \A p \in PlayerIds :
                  last.drew[p + 1] > 0 => Len(Hand(p)) = HandSize \/ deck = <<>>
            /\ deck # <<>> => \A p \in PlayerIds : Len(Hand(p)) >= HandSize)
    /\ [][Refilled' =>
            /\ Len(deck') = Len(deck) - DrawnBefore(last'.drew, attacker', numPlayers)
            /\ deck' = SubSeq(deck, 1, Len(deck'))
            /\ \A k \in 0 .. numPlayers - 1 :
                  LET p == Visited(attacker', k)
                      hand == players'[p + 1]
                      before == DrawnBefore(last'.drew, attacker', k)
                  IN \A m \in 1 .. last'.drew[p + 1] :
                        hand[Len(hand) - last'.drew[p + 1] + m] = deck[Len(deck) - before - m + 1]]_vars

\* a refill in which the deck ran out while the second of two drawing players
\* was drawing
C15_Witness ==
    /\ Refilled /\ deck = <<>>
    /\ \E i, k \in 0 .. numPlayers - 1 :
          /\ i < k
          /\ last.drew[Visited(attacker, i) + 1] > 0
          /\ last.drew[Visited(attacker, k) + 1] > 0
          /\ Len(Hand(Visited(attacker, k))) < HandSize

InPlay == SeqToSet(deck) \cup SeqToSet(Flatten(players)) \cup SeqToSet(TableCards(table))

\* C16: an accepted defend that leaves every pair defended clears the table,
\* puts its cards on the discard pile, makes the old defender the attacker and
\* the next player the defender, runs the refill and sets phase Attack, or
\* Finished when the deck is empty and a hand is empty; an accepted defend that
\* leaves a pair undefended keeps phase Defend, attacker and defender; and a
\* discarded card is never again in a hand, in the deck or on the table.
C16_Resolution ==
    /\ [][(last'.op = "defend" /\ last'.sig = "ok") =>
            IF Cardinality(Undefended) = 1
            THEN /\ table' = <<>>
                 /\ \E c \in SeqToSet(Hand(defender)) :
                       LET pl1 == [players EXCEPT ![defender + 1] =
                                      RemoveAt(@, findIndex(@, c))]
                           after == drawToFill(pl1, deck, defender)
                       IN /\ SeqToSet(discard') =
                                SeqToSet(discard) \cup SeqToSet(TableCards(table)) \cup {c}
                          /\ players' = after.players
                          /\ deck' = after.deck
                 /\ Len(discard') = Len(discard) + 2 * Len(table)
                 /\ attacker' = defender
                 /\ defender' = (attacker' + 1) % numPlayers
                 /\ phase' = (IF deck' = <<>> /\ (\E p \in PlayerIds : players'[p + 1] = <<>>)
                              THEN "finished" ELSE "attack")
            ELSE /\ phase = "defend" /\ phase' = "defend"
                 /\ attacker' = attacker /\ defender' = defender
                 /\ Len(table') = Len(table) /\ discard' = discard
                 /\ Cardinality(Undefended) > 1]_vars
    /\ [](SeqToSet(discard) \cap InPlay = {})
    /\ [][Len(discard') >= Len(discard) /\ SubSeq(discard', 1, Len(discard)) = discard]_vars

\* a resolution of two pairs, defended one after the other, after which a player drew
C16_Witness ==
    /\ last.op = "defend" /\ last.sig = "ok" /\ last.n >= 2
    /\ \E p \in PlayerIds : last.drew[p + 1] > 0

Dealt ==
    /\ \A p \in PlayerIds : Len(Hand(p)) = HandSize
    /\ Len(deck) = NumSuits * NumRanks - HandSize * numPlayers

\* C18 as stated: after newGame every player holds 8 cards, the deck holds
\* 36 - 8 * numPlayers cards, and the trump card, whose suit is trumpSuit, is
\* the card at the end of the deck that cards are drawn from.
C18_TrumpCardDrawnFirst ==
    Steps = 0 => (Dealt /\ Suit(deck[Len(deck)]) = trump)

\* C18 amended: after newGame every player holds 8 cards and the deck holds
\* 36 - 8 * numPlayers cards; the trump card, whose suit is trumpSuit, is at
\* the front of the deck, the end opposite to the one cards are drawn from,
\* and stays there for as long as the deck holds a card: it is the last card
\* drawn. The trump suit never changes.
C18_TrumpCardDrawnLast ==
    /\ [](Steps = 0 => (Dealt /\ Suit(deck[1]) = trump))
    /\ [](deck # <<>> => Suit(deck[1]) = trump)
    /\ [][/\ trump' = trump
          /\ Len(deck') <= Len(deck)
          /\ deck' = SubSeq(deck, 1, Len(deck'))
          /\ (deck # <<>> /\ deck' = <<>>) =>
                \E p \in PlayerIds :
                    /\ last'.drew[p + 1] > 0
                    /\ players'[p + 1][Len(players'[p + 1])] = deck[1]]_vars

\* the deck has been emptied by a refill and the card drawn last, a card of the
\* trump suit, is at the end of a hand, while the card drawn first was not a trump
C18_Witness ==
    /\ Refilled /\ deck = <<>> /\ cnt.take + cnt.defend = 1
    /\ \E p \in PlayerIds :
          /\ last.drew[p + 1] > 0
          /\ Suit(Hand(p)[Len(Hand(p))]) = trump
    /\ LET first == Hand(attacker)[Len(Hand(attacker)) - last.drew[attacker + 1] + 1]
       IN last.drew[attacker + 1] > 0 /\ Suit(first) # trump

RECURSIVE HandsFrom(_)
HandsFrom(k) == IF k = numPlayers THEN 0 ELSE Len(Hand(k)) + HandsFrom(k + 1)

\* a number that every game-changing call lowers: the cards not yet discarded,
\* then the cards the attacker holds or may still draw, then, within a round,
\* the cards in the other hands
Variant ==
    LET notDiscarded == NumSuits * NumRanks - Len(discard)
        attackerSupply == Len(Hand(attacker)) + Len(deck)
        inRound == IF phase = "defend" THEN 1 + HandsFrom(0) - Len(Hand(attacker)) ELSE 0
        base == NumSuits * NumRanks + 2
    IN notDiscarded * base * base + attackerSupply * base + inRound

\* C19: the game reaches phase Finished after finitely many game-changing
\* calls: no state outside Finished is stuck (in phase Attack the attacker
\* holds a card and the attack with it changes the game, in phase Defend the
\* table holds a card and a take changes the game), every game-changing call
\* lowers Variant, a natural number, so there is no infinite sequence of them,
\* and players who keep playing reach Finished.
C19_ReachesFinished ==
    /\ [](phase = "attack" => Hand(attacker) # <<>>)
    /\ [](phase = "defend" => table # <<>>)
    /\ [][/\ phase = "attack" =>
                \A c \in Front(attacker) : playAttack(attacker, c) => game' # game
          /\ (phase = "defend" /\ defenderTakes) => game' # game]_vars
    /\ [][game' # game => (Variant' < Variant /\ Variant' >= 0)]_vars
    /\ <>(phase = "finished")

\* a game that has reached Finished through attacks, defends, add-attacks and takes
C19_Witness ==
    /\ phase = "finished"
    /\ cnt.attack > 0 /\ cnt.defend > 0 /\ cnt.add > 0 /\ cnt.take > 0
    /\ discard # <<>>

\* C20: the table is empty whenever the phase is Attack or Finished, the table
\* holds an undefended pair whenever the phase is Defend, and the phase is
\* never the transient value Cleanup.
C20_PhaseTable ==
    /\ phase \in {"attack", "defend", "finished"}
    /\ phase \in {"attack", "finished"} => table = <<>>
    /\ phase = "defend" => Undefended # {}

\* phase Defend with a defended and an undefended pair, after a resolution and
\* a take
C20_Witness ==
    /\ phase = "defend" /\ Undefended # {}
    /\ \E i \in 1 .. Len(table) : table[i].defend # NoCard
    /\ discard # <<>> /\ cnt.take > 0

====
